---- MODULE Spec2Model ----
(***************************************************************************)
(* Model of nfsd.go: FS.NewNFSdRPCStats and parseNFSdReplyCache.           *)
(* Text is a sequence of one-character strings, so that strings.Fields and *)
(* strconv.ParseInt are computed character by character.                   *)
(***************************************************************************)
EXTENDS Integers, Sequences, FiniteSets, TLC

\* ------------------------------------------------------------------ bounds
\* Lines the scanner yields in one call.
MaxLines == 2
\* Value tokens after the key on a generated line.
MaxVals == 3
\* bitSize of strconv.ParseInt, scaled down from 64.
IntBits == 4

\* --------------------------------------------------------- record layouts
NFSdReplyCache == <<"Hits", "Misses", "NoCache">>
NFSdFileHandles == <<"Stale", "TotalLookups", "AnonLookups", "DirNoCache", "NoDirNoCache">>
NFSdInputOutput == <<"Read", "Write">>
NFSdThreads == <<"Threads", "FullCnt">>
NFSdReadAheadCache == <<"CacheSize", "CacheHistogram[0]", "CacheHistogram[1]", "CacheHistogram[2]", "CacheHistogram[3]", "CacheHistogram[4]", "CacheHistogram[5]", "CacheHistogram[6]", "CacheHistogram[7]", "CacheHistogram[8]", "CacheHistogram[9]", "NotFound">>
NFSdNetwork == <<"NetCount", "UDPCount", "TCPCount", "TCPConnect">>
NFSdRPC == <<"RPCCount", "BadCnt", "BadFmt", "BadAuth", "BadcInt">>
NFSdv2Stats == <<"Values", "Null", "GetAttr", "SetAttr", "Root", "Lookup", "ReadLink", "Read", "WrCache", "Write", "Create", "Remove", "Rename", "Link", "SymLink", "MkDir", "RmDir", "ReadDir", "FsStat">>
NFSdv3Stats == <<"Values", "Null", "GetAttr", "SetAttr", "Lookup", "Access", "ReadLink", "Read", "Write", "Create", "MkDir", "SymLink", "MkNod", "Remove", "RmDir", "Rename", "Link", "ReadDir", "ReadDirPlus", "FsStat", "FsInfo", "PathConf", "Commit">>
NFSdv4Stats == <<"Values", "Null", "Compound">>
NFSdv4Ops == <<"Values", "Op0Unused", "Op1Unused", "Op2Future", "Access", "Close", "Commit", "Create", "DelegPurge", "DelegReturn", "GetAttr", "GetFH", "Link", "Lock", "Lockt", "Locku", "Lookup", "LookupRoot", "Nverify", "Open", "OpenAttr", "OpenConfirm", "OpenDgrd", "PutFH", "PutPubFH", "PutRootFH", "Read", "ReadDir", "ReadLink", "Remove", "Rename", "Renew", "RestoreFH", "SaveFH", "SecInfo", "SetAttr", "Verify", "Write", "RelLockOwner">>

\* The zero value of a struct whose fields are all uint64.
ZeroValue(fields) == [f \in {fields[i] : i \in 1..Len(fields)} |-> 0]

\* NFSdRPCStats{}: every member record zero.
NFSdRPCStats ==
  [NFSdReplyCache |-> ZeroValue(NFSdReplyCache),
   NFSdFileHandles |-> ZeroValue(NFSdFileHandles),
   NFSdInputOutput |-> ZeroValue(NFSdInputOutput),
   NFSdThreads |-> ZeroValue(NFSdThreads),
   NFSdReadAheadCache |-> ZeroValue(NFSdReadAheadCache),
   NFSdNetwork |-> ZeroValue(NFSdNetwork),
   NFSdRPC |-> ZeroValue(NFSdRPC),
   NFSdv2Stats |-> ZeroValue(NFSdv2Stats),
   NFSdv3Stats |-> ZeroValue(NFSdv3Stats),
   NFSdv4Stats |-> ZeroValue(NFSdv4Stats),
   NFSdv4Ops |-> ZeroValue(NFSdv4Ops)]

\* ------------------------------------------------------------ record keys
KeyRc == <<"r", "c">>
KeyFh == <<"f", "h">>
KeyIo == <<"i", "o">>
KeyTh == <<"t", "h">>
KeyRa == <<"r", "a">>
KeyNet == <<"n", "e", "t">>
KeyRpc == <<"r", "p", "c">>
KeyProc2 == <<"p", "r", "o", "c", "2">>
KeyProc3 == <<"p", "r", "o", "c", "3">>
KeyProc4 == <<"p", "r", "o", "c", "4">>
KeyProc4ops == <<"p", "r", "o", "c", "4", "o", "p", "s">>

\* The case labels of the switch on parts[0].
SwitchCases == {KeyRc, KeyFh, KeyIo, KeyTh, KeyRa, KeyRpc, KeyProc2, KeyProc3, KeyProc4, KeyProc4ops}

\* The record types the file declares a struct for ("// rc line", ..., "// proc4ops line").
CatalogKeys == {KeyRc, KeyFh, KeyIo, KeyTh, KeyRa, KeyNet, KeyRpc, KeyProc2, KeyProc3, KeyProc4, KeyProc4ops}

\* The NFSdRPCStats member that holds the record of a key.
MemberOf(key) ==
  CASE key = KeyRc -> "NFSdReplyCache"
    [] key = KeyFh -> "NFSdFileHandles"
    [] key = KeyIo -> "NFSdInputOutput"
    [] key = KeyTh -> "NFSdThreads"
    [] key = KeyRa -> "NFSdReadAheadCache"
    [] key = KeyNet -> "NFSdNetwork"
    [] key = KeyRpc -> "NFSdRPC"
    [] key = KeyProc2 -> "NFSdv2Stats"
    [] key = KeyProc3 -> "NFSdv3Stats"
    [] key = KeyProc4 -> "NFSdv4Stats"
    [] key = KeyProc4ops -> "NFSdv4Ops"

\* The field order of the record of a key.
LayoutOf(key) ==
  CASE key = KeyRc -> NFSdReplyCache
    [] key = KeyFh -> NFSdFileHandles
    [] key = KeyIo -> NFSdInputOutput
    [] key = KeyTh -> NFSdThreads
    [] key = KeyRa -> NFSdReadAheadCache
    [] key = KeyNet -> NFSdNetwork
    [] key = KeyRpc -> NFSdRPC
    [] key = KeyProc2 -> NFSdv2Stats
    [] key = KeyProc3 -> NFSdv3Stats
    [] key = KeyProc4 -> NFSdv4Stats
    [] key = KeyProc4ops -> NFSdv4Ops

\* ----------------------------------------------------------------- errors
\* An error value: the format string and the operands formatted into it.
Errorf(format, args) == [format |-> format, args |-> args]
NilErr == [format |-> "<nil>", args |-> <<>>]
IsNil(e) == e.format = "<nil>"

\* ---------------------------------------------------------- strings.Fields
IsSpace(c) == c \in {" ", "\t", "\n", "\r", "\f"}

RECURSIVE FieldsFrom(_, _, _, _)
FieldsFrom(s, i, cur, acc) ==
  IF i > Len(s)
  THEN IF cur = <<>> THEN acc ELSE Append(acc, cur)
  ELSE IF IsSpace(s[i])
       THEN FieldsFrom(s, i + 1, <<>>, IF cur = <<>> THEN acc ELSE Append(acc, cur))
       ELSE FieldsFrom(s, i + 1, Append(cur, s[i]), acc)

Fields(s) == FieldsFrom(s, 1, <<>>, <<>>)

\* -------------------------------------------------------- strconv.ParseInt
Digits == <<"0", "1", "2", "3", "4", "5", "6", "7", "8", "9">>
IsDigit(c) == \E d \in 1..10 : Digits[d] = c
DigitVal(c) == (CHOOSE d \in 1..10 : Digits[d] = c) - 1

RECURSIVE Pow2(_)
Pow2(n) == IF n = 0 THEN 1 ELSE 2 * Pow2(n - 1)

\* ParseUint over the digits of s: the value, or -1 on a syntax or range error.
RECURSIVE ParseUintFrom(_, _, _, _)
ParseUintFrom(s, i, n, maxVal) ==
  IF i > Len(s) THEN n
  ELSE IF ~IsDigit(s[i]) THEN -1
  ELSE IF n * 10 + DigitVal(s[i]) > maxVal THEN -1
  ELSE ParseUintFrom(s, i + 1, n * 10 + DigitVal(s[i]), maxVal)

ParseUint(s, bitSize) ==
  IF s = <<>> THEN [val |-> 0, ok |-> FALSE]
  ELSE LET n == ParseUintFrom(s, 1, 0, Pow2(bitSize) - 1)
       IN IF n < 0 THEN [val |-> 0, ok |-> FALSE] ELSE [val |-> n, ok |-> TRUE]

\* ParseInt(s, 10, IntBits): optional sign, digits, range -2^(b-1) .. 2^(b-1)-1.
ParseInt(s) ==
  IF s = <<>> THEN [val |-> 0, ok |-> FALSE]
  ELSE LET neg == s[1] = "-"
           body == IF s[1] \in {"+", "-"} THEN Tail(s) ELSE s
           un == ParseUint(body, IntBits)
           cutoff == Pow2(IntBits - 1)
       IN IF ~un.ok THEN [val |-> 0, ok |-> FALSE]
          ELSE IF ~neg /\ un.val >= cutoff THEN [val |-> 0, ok |-> FALSE]
          ELSE IF neg /\ un.val > cutoff THEN [val |-> 0, ok |-> FALSE]
          ELSE [val |-> IF neg THEN 0 - un.val ELSE un.val, ok |-> TRUE]

\* An int64 stored into a uint64 field.
ToUint64(v) == v % Pow2(IntBits)

\* ---------------------------------------------------- parseNFSdReplyCache
\* Returns the record (stat: zero or one element, <<>> is nil) and the error.
parseNFSdReplyCache(line) ==
  IF Len(line) # 3
  THEN [stat |-> <<>>, err |-> Errorf("invalid NFSdReplyCache line %q", <<line>>)]
  ELSE LET hits == ParseInt(line[1])
           misses == ParseInt(line[2])
           nocache == ParseInt(line[3])
       IN IF ~hits.ok
          THEN [stat |-> <<>>, err |-> Errorf("couldn't parse NFSdReplyCache hits %q", <<line[1]>>)]
          ELSE IF ~misses.ok
          THEN [stat |-> <<>>, err |-> Errorf("couldn't parse NFSdReplyCache misses %q", <<line[2]>>)]
          ELSE IF ~nocache.ok
          THEN [stat |-> <<>>, err |-> Errorf("couldn't parse NFSdReplyCache nocache %q", <<line[3]>>)]
          ELSE [stat |-> <<[Hits |-> ToUint64(hits.val),
                            Misses |-> ToUint64(misses.val),
                            NoCache |-> ToUint64(nocache.val)]>>,
                err |-> NilErr]

\* ------------------------------------------------------------ return values
\* What NewNFSdRPCStats hands back: nil, Stat{} or the NFSdRPCStats local.
NoReturn == [type |-> "none", val |-> <<>>]
ReturnNil == [type |-> "nil", val |-> <<>>]
ReturnStat == [type |-> "Stat{}", val |-> <<>>]
ReturnStats(s) == [type |-> "NFSdRPCStats", val |-> <<s>>]

\* ------------------------------------------------- body of the scan loop
\* One iteration on the text of a line, with the aggregate built so far.
\* returned is TRUE when the iteration leaves the function.
LoopBody_partial(text, agg) ==
  LET parts == Fields(text)
  IN IF Len(parts) < 2
     THEN [returned |-> TRUE, ret |-> ReturnStats(agg),
           err |-> Errorf("invalid NFSd metric line %q", <<text>>), agg |-> agg]
     ELSE LET metricLine == parts[1]
          IN IF metricLine = KeyRc
             THEN LET r == parseNFSdReplyCache(Tail(parts))
                  IN IF ~IsNil(r.err)
                     THEN [returned |-> TRUE, ret |-> ReturnStats(agg),
                           err |-> Errorf("error parsing NFSdReplyCache: %s", <<r.err>>), agg |-> agg]
                     ELSE [returned |-> FALSE, ret |-> NoReturn, err |-> NilErr, agg |-> agg]
             ELSE IF metricLine \in SwitchCases
             THEN [returned |-> FALSE, ret |-> NoReturn, err |-> NilErr, agg |-> agg]
             ELSE [returned |-> TRUE, ret |-> ReturnStats(agg),
                   err |-> Errorf("invalid NFSd metric line %q", <<metricLine>>), agg |-> agg]

LoopBody_keyOnly(text, agg) ==
  LET parts == Fields(text)
  IN IF Len(parts) < 1
     THEN [returned |-> TRUE, ret |-> ReturnNil,
           err |-> Errorf("invalid NFSd metric line %q", <<text>>), agg |-> agg]
     ELSE LET metricLine == parts[1]
          IN IF metricLine = KeyRc
             THEN LET r == parseNFSdReplyCache(Tail(parts))
                  IN IF ~IsNil(r.err)
                     THEN [returned |-> TRUE, ret |-> ReturnNil,
                           err |-> Errorf("error parsing NFSdReplyCache: %s", <<r.err>>), agg |-> agg]
                     ELSE [returned |-> FALSE, ret |-> NoReturn, err |-> NilErr, agg |-> agg]
             ELSE IF metricLine \in SwitchCases
             THEN [returned |-> FALSE, ret |-> NoReturn, err |-> NilErr, agg |-> agg]
             ELSE [returned |-> TRUE, ret |-> ReturnNil,
                   err |-> Errorf("invalid NFSd metric line %q", <<metricLine>>), agg |-> agg]

LoopBody(text, agg) ==
  LET parts == Fields(text)
  IN IF Len(parts) < 2
     THEN [returned |-> TRUE, ret |-> ReturnNil,
           err |-> Errorf("invalid NFSd metric line %q", <<text>>), agg |-> agg]
     ELSE LET metricLine == parts[1]
          IN IF metricLine = KeyRc
             THEN LET r == parseNFSdReplyCache(Tail(parts))
                  IN IF ~IsNil(r.err)
                     THEN [returned |-> TRUE, ret |-> ReturnNil,
                           err |-> Errorf("error parsing NFSdReplyCache: %s", <<r.err>>), agg |-> agg]
                     ELSE [returned |-> FALSE, ret |-> NoReturn, err |-> NilErr, agg |-> agg]
             ELSE IF metricLine \in SwitchCases
             THEN [returned |-> FALSE, ret |-> NoReturn, err |-> NilErr, agg |-> agg]
             ELSE [returned |-> TRUE, ret |-> ReturnNil,
                   err |-> Errorf("invalid NFSd metric line %q", <<metricLine>>), agg |-> agg]

\* --------------------------------------------------- code after the loop
\* scanner.Err() is scanErr; name is f.Name().
AfterLoop_unwrapped(scanErr, name, agg) ==
  IF ~IsNil(scanErr)
  THEN [ret |-> ReturnStat, err |-> scanErr]
  ELSE [ret |-> ReturnStats(agg), err |-> NilErr]

AfterLoop(scanErr, name, agg) ==
  IF ~IsNil(scanErr)
  THEN [ret |-> ReturnStat, err |-> Errorf("couldn't parse %s: %s", <<name, scanErr>>)]
  ELSE [ret |-> ReturnStats(agg), err |-> NilErr]

\* ------------------------------------------------------------------ inputs
\* Mount points of the FS receiver.
MountPoints == {"/proc", "/host/proc"}
\* fs.Path("net/rpc/nfsd")
Path(mount) == mount \o "/net/rpc/nfsd"

\* Errors os.Open can return.
OpenErrors == {Errorf("open: no such file or directory", <<>>),
               Errorf("open: permission denied", <<>>)}
\* Errors the scanner can end with (scanner.Err()).
ScanErrors == {Errorf("bufio.Scanner: token too long", <<>>),
               Errorf("read: input/output error", <<>>)}

\* Value tokens: a number and a token that is not a number.
ValueTokens == {<<"2">>, <<"1", "a">>}
\* A number above the signed range of ParseInt at the modelled width, and a
\* negative number.
SignTokens == {<<"9">>, <<"-", "1">>}
\* First tokens: the record keys and one that is no record key.
KeyTokens == CatalogKeys \cup {<<"x", "x">>}

RECURSIVE SeqsUpTo(_, _)
SeqsUpTo(S, n) ==
  IF n = 0 THEN {<<>>}
  ELSE LET shorter == SeqsUpTo(S, n - 1)
       IN shorter \cup {Append(q, x) : q \in {p \in shorter : Len(p) = n - 1}, x \in S}

RECURSIVE Join(_, _)
Join(toks, sep) ==
  IF toks = <<>> THEN <<>>
  ELSE IF Len(toks) = 1 THEN toks[1]
  ELSE toks[1] \o sep \o Join(Tail(toks), sep)

\* How the tokens of a line are laid out: single spaces, or leading and
\* trailing blanks with runs of blanks between the tokens.
Layouts == {[lead |-> <<>>, sep |-> <<" ">>, trail |-> <<>>],
            [lead |-> <<" ">>, sep |-> <<"\t", " ">>, trail |-> <<" ">>]}

\* A key followed by up to MaxVals value tokens.
RecordLines ==
  {lay.lead \o Join(<<k>> \o vs, lay.sep) \o lay.trail :
      k \in KeyTokens, vs \in SeqsUpTo(ValueTokens, MaxVals), lay \in Layouts}

\* rc lines with a sign token in one of the three positions.
SignLines ==
  {Join(<<KeyRc>> \o [j \in 1..3 |-> IF j = i THEN t ELSE <<"2">>], <<" ">>) :
      i \in 1..3, t \in SignTokens}

\* Lines with no token at all.
BlankLines == {<<>>, <<" ">>, <<"\t", " ">>}

\* The lines scanner.Text() can yield.
Lines == RecordLines \cup SignLines \cup BlankLines

\* ------------------------------------------------------------------- state
VARIABLES
  pc,       \* "idle", "scanning", "failed" (returned an error), "done" (returned nil error)
  fs,       \* mount point of the receiver
  lineNo,   \* lines the scanner has yielded
  line,     \* scanner.Text() of the last line yielded
  stats,    \* the local NFSdRPCStats
  scanErr,  \* scanner.Err()
  ret,      \* first return value
  err       \* second return value

vars == <<pc, fs, lineNo, line, stats, scanErr, ret, err>>

Init ==
  /\ pc = "idle"
  /\ fs \in MountPoints
  /\ lineNo = 0
  /\ line = <<>>
  /\ stats = NFSdRPCStats
  /\ scanErr = NilErr
  /\ ret = NoReturn
  /\ err = NilErr

\* os.Open succeeds; stats and the scanner are set up.
Open ==
  /\ pc = "idle"
  /\ pc' = "scanning"
  /\ stats' = NFSdRPCStats
  /\ UNCHANGED <<fs, lineNo, line, scanErr, ret, err>>

\* os.Open fails: return Stat{}, err.
OpenFail ==
  /\ pc = "idle"
  /\ \E e \in OpenErrors :
       /\ pc' = "failed"
       /\ ret' = ReturnStat
       /\ err' = e
  /\ UNCHANGED <<fs, lineNo, line, stats, scanErr>>

\* scanner.Scan() yields a line and the loop body runs on it.
ScanLine ==
  /\ pc = "scanning"
  /\ lineNo < MaxLines
  /\ \E text \in Lines :
       \E r \in {LoopBody(text, stats)} :
          /\ line' = text
          /\ lineNo' = lineNo + 1
          /\ stats' = r.agg
          /\ IF r.returned
             THEN pc' = "failed" /\ ret' = r.ret /\ err' = r.err
             ELSE pc' = "scanning" /\ UNCHANGED <<ret, err>>
  /\ UNCHANGED <<fs, scanErr>>

\* scanner.Scan() returns false at end of input.
EndOfInput ==
  /\ pc = "scanning"
  /\ LET r == AfterLoop(NilErr, Path(fs), stats)
     IN /\ pc' = "done"
        /\ ret' = r.ret
        /\ err' = r.err
  /\ UNCHANGED <<fs, lineNo, line, stats, scanErr>>

\* scanner.Scan() returns false because the stream failed.
StreamError ==
  /\ pc = "scanning"
  /\ \E e \in ScanErrors :
       LET r == AfterLoop(e, Path(fs), stats)
       IN /\ scanErr' = e
          /\ pc' = "failed"
          /\ ret' = r.ret
          /\ err' = r.err
  /\ UNCHANGED <<fs, lineNo, line, stats>>

Next == Open \/ OpenFail \/ ScanLine \/ EndOfInput \/ StreamError

Spec == Init /\ [][Next]_vars

\* ------------------------------------------------------------ properties
\* The tokens of the last line the scanner yielded.
LastParts == Fields(line)
\* A line has been consumed.
Consumed == lineNo > 0
\* The call returned an error from the body of the loop.
LineFailed == pc = "failed" /\ lineNo > 0 /\ IsNil(scanErr)

\* A token that is a base-10 unsigned integer of the modelled width.
IsUintToken(t) == ParseUint(t, IntBits).ok
UintVal(t) == ParseUint(t, IntBits).val

\* Record keys whose lines carry a leading count of the counters that follow.
DeclaredLengthKeys == {KeyProc2, KeyProc3, KeyProc4, KeyProc4ops}
\* The number of value tokens of the fixed-arity lines of the file format.
ArityOK(key, n) ==
  CASE key = KeyRc -> n = 3
    [] key = KeyFh -> n = 5
    [] key = KeyIo -> n = 2
    [] key = KeyTh -> n \in {2, 12}
    [] key = KeyRa -> n = 12
    [] key = KeyNet -> n = 4
    [] key = KeyRpc -> n = 5

\* A line of the file format: key, the right number of tokens, all numbers.
WellFormedLine(p) ==
  /\ Len(p) >= 2
  /\ p[1] \in CatalogKeys
  /\ \A i \in 2..Len(p) : IsUintToken(p[i])
  /\ IF p[1] \in DeclaredLengthKeys
     THEN Len(p) - 2 = UintVal(p[2])
     ELSE ArityOK(p[1], Len(p) - 1)

\* The record of a key in an aggregate holds the value tokens of p in order.
HoldsTokens(agg, p) ==
  LET layout == LayoutOf(p[1])
  IN \A i \in 1..Len(layout) :
       i + 1 <= Len(p) => agg[MemberOf(p[1])][layout[i]] = UintVal(p[i + 1])

\* C1: a well-formed line never fails the parse, the aggregate then holds
\* each of its tokens in the counter of that position, and the call
\* returns that aggregate with a nil error.
C1_WellFormedParses ==
  (Consumed /\ WellFormedLine(LastParts)) =>
    /\ ~LineFailed
    /\ HoldsTokens(stats, LastParts)
    /\ pc = "done" => (IsNil(err) /\ ret.type = "NFSdRPCStats" /\ HoldsTokens(ret.val[1], LastParts))

\* C2: a line of at least 2 tokens fails with the unknown-record error that
\* cites its first token exactly when that token is none of the 11 keys.
C2_UnknownIffNotCatalog ==
  (Consumed /\ Len(LastParts) >= 2) =>
    ((/\ LineFailed
      /\ err.format = "invalid NFSd metric line %q"
      /\ err.args = <<LastParts[1]>>)
     <=> LastParts[1] \notin CatalogKeys)

\* C3: a fixed-arity line with the wrong number of value tokens fails the
\* parse and no result is returned, whatever its type.
C3_ArityEnforced ==
  (/\ Consumed
   /\ Len(LastParts) >= 2
   /\ LastParts[1] \in CatalogKeys \ DeclaredLengthKeys
   /\ ~ArityOK(LastParts[1], Len(LastParts) - 1)) =>
    (LineFailed /\ ret.type = "nil")

\* C4: a proc4ops line declaring V counters parses and is decoded in order
\* when exactly V tokens follow, and fails the parse otherwise.
C4_Proc4opsDeclaredLength ==
  (/\ Consumed
   /\ Len(LastParts) >= 2
   /\ LastParts[1] = KeyProc4ops
   /\ \A i \in 2..Len(LastParts) : IsUintToken(LastParts[i])) =>
    IF Len(LastParts) - 2 = UintVal(LastParts[2])
    THEN ~LineFailed /\ HoldsTokens(stats, LastParts)
    ELSE LineFailed /\ ret.type = "nil"

\* C5: a line of a known record type with a value token that is no unsigned
\* integer fails the parse, whatever its type.
C5_InvalidNumberRejected ==
  (/\ Consumed
   /\ Len(LastParts) >= 2
   /\ LastParts[1] \in CatalogKeys
   /\ \E i \in 2..Len(LastParts) : ~IsUintToken(LastParts[i])) =>
    (LineFailed /\ ret.type = "nil")

\* C6: a line on which the loop body produces an error ends the call in the
\* failed outcome with that error and a nil result, and a further line is
\* read only after a line that produced no error.
C6_FirstErrorAborts ==
  /\ [](Consumed /\ ~IsNil(LoopBody(line, stats).err) =>
          /\ pc = "failed"
          /\ ret.type = "nil"
          /\ err.format = LoopBody(line, stats).err.format
          /\ err.args = LoopBody(line, stats).err.args)
  /\ [][lineNo' # lineNo =>
          /\ pc = "scanning"
          /\ lineNo' = lineNo + 1
          /\ Consumed => IsNil(LoopBody(line, stats).err)]_vars

\* A decoder error on the second line, after a line that was accepted.
C6_Witness ==
  /\ lineNo = 2
  /\ pc = "failed"
  /\ err.format = "error parsing NFSdReplyCache: %s"
  /\ ret.type = "nil"

\* C7: an rc line with three unsigned tokens is decoded to Hits, Misses,
\* NoCache in that order, and the aggregate returned on success holds them.
C7_ReplyCacheDecoded ==
  (/\ Consumed
   /\ Len(LastParts) = 4
   /\ LastParts[1] = KeyRc
   /\ \A i \in 2..4 : IsUintToken(LastParts[i])) =>
    /\ parseNFSdReplyCache(Tail(LastParts)).stat =
         <<[Hits |-> UintVal(LastParts[2]),
            Misses |-> UintVal(LastParts[3]),
            NoCache |-> UintVal(LastParts[4])]>>
    /\ ~LineFailed
    /\ pc = "done" =>
         /\ ret.type = "NFSdRPCStats"
         /\ ret.val[1].NFSdReplyCache =
              [Hits |-> UintVal(LastParts[2]),
               Misses |-> UintVal(LastParts[3]),
               NoCache |-> UintVal(LastParts[4])]

\* C8: a line of fewer than 2 tokens fails the parse with the invalid-line
\* error that quotes the whole line, and a nil result.
C8_ShortLineMalformed ==
  (Consumed /\ Len(LastParts) < 2) =>
    /\ pc = "failed"
    /\ ret.type = "nil"
    /\ err.format = "invalid NFSd metric line %q"
    /\ err.args = <<line>>

\* A blank line after an accepted record has failed the parse.
C8_Witness ==
  /\ lineNo = 2
  /\ line # <<>>
  /\ LastParts = <<>>
  /\ pc = "failed"
  /\ err.args = <<line>>

\* C9: a record the decoder returned is stored in the aggregate under its
\* key, replacing what was there.
C9_LastRecordStored ==
  (/\ Consumed
   /\ ~LineFailed
   /\ Len(LastParts) >= 2
   /\ LastParts[1] = KeyRc
   /\ IsNil(parseNFSdReplyCache(Tail(LastParts)).err)) =>
    <<stats.NFSdReplyCache>> = parseNFSdReplyCache(Tail(LastParts)).stat

====
